---- MODULE Spec2Model ----
(***************************************************************************)
(* The generic PDDL solver interface of unified_planning:                  *)
(* PDDLSolver.solve, PDDLSolver._plan_from_file and the coroutine          *)
(* run_command (unified_planning/solvers/pddl_solver.py).                  *)
(*                                                                         *)
(* One solve call is one control flow (pc).  The child process spawned by  *)
(* run_command is the environment: it writes lines to its two pipes,       *)
(* closes them, writes the plan file and exits in any order.  Time is a    *)
(* clock counted in polling intervals of 0.5 s.                            *)
(***************************************************************************)
EXTENDS Integers, Sequences, FiniteSets, TLC

VARIABLES
    pc,               \* position of the solve call (and of run_command in it)
    tempdir,          \* the TemporaryDirectory of the call exists
    plan_file,        \* <<>> or <<lines>>: content of plan.txt in tempdir
    timeout,          \* <<>> (None) or <<t>>, t in polling intervals
    output_stream,    \* <<>> (None) or <<chunks written so far>>
    clock,            \* time.time() - start, in polling intervals (saturating)
    proc,             \* "none", "running", "exited": the child process
    returncode,       \* exit code of the child once proc = "exited"
    open,             \* open[idx]: the child's end of stream idx is open
    pipe,             \* pipe[idx]: lines written by the child, not yet read
    nwrites,          \* number of lines the child has written
    idx,              \* position of the for loop over the two streams
    lines,            \* lines[idx] of the current polling cycle
    oks,              \* oks[idx] of the current polling cycle
    process_output,   \* process_output[idx]: chunks accumulated
    timeout_occoured, \* the flag returned by run_command
    logs,             \* solve's list of LogMessage
    plan,             \* <<>> (None) or <<plan>>
    outcome,          \* <<>> or <<PlanGenerationResult>> returned by solve
    error,            \* "none" or the exception that left solve
    exited_at,        \* history: clock when the child exited, -1 before
    child_acted,      \* history: the child wrote, closed a stream or exited
    consumed,         \* history: consumed[idx]: the bytes read from stream idx
    kills,            \* history: the number of process.kill() calls made
    plan_seen,        \* history: plan_file when os.path.isfile was evaluated
    classifier_calls, \* history: number of _result_status invocations
    classifier_result \* history: <<>> or <<status returned by _result_status>>

vars == <<pc, tempdir, plan_file, timeout, output_stream, clock, proc,
          returncode, open, pipe, nwrites, idx, lines, oks, process_output,
          timeout_occoured, logs, plan, outcome, error, exited_at,
          child_acted, consumed, kills, plan_seen, classifier_calls,
          classifier_result>>

----------------------------------------------------------------------------
(* Bounds *)

MaxTimeout == 2    \* timeouts range over 1..MaxTimeout polling intervals
MaxWrites == 2     \* lines the child writes in one run
PipeCap == 1       \* lines a pipe holds before the child's write blocks

MaxClock == MaxTimeout + 1   \* the clock saturates above every timeout

(* Program constants *)

KillCode == -9     \* returncode of a child ended by process.kill()

None == <<>>
Some(x) == <<x>>
Min(a, b) == IF a < b THEN a ELSE b

Streams == {0, 1}            \* enumerate([process.stdout, process.stderr])
ExitCodes == {0, 1}          \* codes a child exits with on its own

----------------------------------------------------------------------------
(* Text.  A string is a sequence of characters. *)

Concat(a, b) == a \o b

RECURSIVE Join(_)
\* ''.join(chunks)
Join(chunks) ==
    IF chunks = <<>> THEN <<>> ELSE Concat(Head(chunks), Join(Tail(chunks)))

RECURSIVE ReplaceCRLF(_)
\* s.replace('\r\n', '\n')
ReplaceCRLF(s) ==
    IF s = <<>> THEN <<>>
    ELSE IF Len(s) >= 2 /\ s[1] = "CR" /\ s[2] = "LF"
         THEN <<"LF">> \o ReplaceCRLF(SubSeq(s, 3, Len(s)))
         ELSE <<s[1]>> \o ReplaceCRLF(Tail(s))

\* the lines a child writes: one ends in \n, one in \r\n
ChildLines == { <<"a", "LF">>, <<"b", "CR", "LF">> }

----------------------------------------------------------------------------
(* _plan_from_file: the two regular expressions, over lines without their  *)
(* trailing newline (which $ ignores)                                      *)

IsSpace(c) == c = " "                               \* \s
IsWord(c) == c \in {"m", "a", "b", "x", "-", "?"}   \* [\w?-]

RECURSIVE SkipSpace(_, _)
\* the first position >= i of s that holds no \s (Len(s) + 1 at the end)
SkipSpace(s, i) ==
    IF i <= Len(s) /\ IsSpace(s[i]) THEN SkipSpace(s, i + 1) ELSE i

RECURSIVE SkipWord(_, _)
\* the first position >= i of s that holds no [\w?-]
SkipWord(s, i) ==
    IF i <= Len(s) /\ IsWord(s[i]) THEN SkipWord(s, i + 1) ELSE i

\* a comment pattern anchored at the first column: r'^(;.*)?$'
IsBlankOrCommentNoIndent(line) == line = <<>> \/ line[1] = ";"

\* re.match(r'^\s*(;.*)?$', line)
IsBlankOrComment(line) ==
    LET j == SkipSpace(line, 1)
    IN  j > Len(line) \/ line[j] = ";"

RECURSIVE SkipParams(_, _)
\* the end of ((\s+[\w?-]+)*) started at i
SkipParams(s, i) ==
    LET j == SkipSpace(s, i)
        k == SkipWord(s, j)
    IN  IF j > i /\ k > j THEN SkipParams(s, k) ELSE i

\* the pattern with both parentheses optional
MatchActionOptionalParens(line) ==
    LET i1 == SkipSpace(line, 1)
        opened == i1 <= Len(line) /\ line[i1] = "("
        i2 == IF opened THEN SkipSpace(line, i1 + 1) ELSE i1
        i3 == SkipWord(line, i2)
        i4 == SkipParams(line, i3)
        i5 == SkipSpace(line, i4)
        closed == i5 <= Len(line) /\ line[i5] = ")"
        i6 == IF closed THEN SkipSpace(line, i5 + 1) ELSE i5
        m  == i3 > i2 /\ opened = closed /\ i6 = Len(line) + 1
    IN  IF m THEN [matched |-> TRUE,
                   group1 |-> SubSeq(line, i2, i3 - 1),
                   group2 |-> SubSeq(line, i3, i4 - 1)]
        ELSE [matched |-> FALSE, group1 |-> <<>>, group2 |-> <<>>]

\* re.match(r'^\s*\(\s*([\w?-]+)((\s+[\w?-]+)*)\s*\)\s*$', line):
\* [matched, group1, group2]
MatchAction(line) ==
    LET i1 == SkipSpace(line, 1)
        i2 == SkipSpace(line, i1 + 1)
        i3 == SkipWord(line, i2)
        i4 == SkipParams(line, i3)
        i5 == SkipSpace(line, i4)
        i6 == SkipSpace(line, i5 + 1)
        m  == /\ i1 <= Len(line) /\ line[i1] = "("
              /\ i3 > i2
              /\ i5 <= Len(line) /\ line[i5] = ")"
              /\ i6 = Len(line) + 1
    IN  IF m THEN [matched |-> TRUE,
                   group1 |-> SubSeq(line, i2, i3 - 1),
                   group2 |-> SubSeq(line, i3, i4 - 1)]
        ELSE [matched |-> FALSE, group1 |-> <<>>, group2 |-> <<>>]

RECURSIVE Split(_)
\* str.split(): the whitespace-separated tokens of s
Split(s) ==
    LET j == SkipSpace(s, 1)
        k == SkipWord(s, j)
    IN  IF j > Len(s) THEN <<>>
        ELSE <<SubSeq(s, j, k - 1)>> \o Split(SubSeq(s, k, Len(s)))

\* the registries of the problem
ActionNames == { <<"m">> }
ObjectNames == { <<"a">>, <<"b">> }

\* problem.action(name): the name resolves
HasAction(name) == name \in ActionNames
\* problem.object(p): the name resolves
HasObject(p) == p \in ObjectNames

\* the loop body with `continue` in place of the final raise
ParseLineSkipMalformed(line) ==
    IF IsBlankOrComment(line) THEN [kind |-> "skip"]
    ELSE LET res == MatchAction(line)
         IN  IF res.matched
             THEN LET ps == Split(res.group2)
                  IN IF ~HasAction(res.group1)
                     THEN [kind |-> "UnknownSymbol", token |-> res.group1]
                     ELSE IF \E n \in 1..Len(ps) : ~HasObject(ps[n])
                     THEN [kind |-> "UnknownSymbol",
                           token |-> ps[CHOOSE n \in 1..Len(ps) :
                                          /\ ~HasObject(ps[n])
                                          /\ \A q \in 1..(n-1) : HasObject(ps[q])]]
                     ELSE [kind |-> "action",
                           instance |-> [action |-> res.group1, params |-> ps]]
             ELSE [kind |-> "skip"]

\* the loop body with every failed lookup reported as the generic error
ParseLineUnknownAsMalformed(line) ==
    IF IsBlankOrComment(line) THEN [kind |-> "skip"]
    ELSE LET res == MatchAction(line)
         IN  IF res.matched
             THEN LET ps == Split(res.group2)
                  IN IF ~HasAction(res.group1)
                        \/ \E n \in 1..Len(ps) : ~HasObject(ps[n])
                     THEN [kind |-> "UPException"]
                     ELSE [kind |-> "action",
                           instance |-> [action |-> res.group1, params |-> ps]]
             ELSE [kind |-> "UPException"]

\* One line of the loop: "skip" (continue), "action" (append), or the
\* exception raised
ParseLine(line) ==
    IF IsBlankOrComment(line) THEN [kind |-> "skip"]
    ELSE LET res == MatchAction(line)
         IN  IF res.matched
             THEN LET ps == Split(res.group2)
                  IN IF ~HasAction(res.group1)
                     THEN [kind |-> "UnknownSymbol", token |-> res.group1]
                     ELSE IF \E n \in 1..Len(ps) : ~HasObject(ps[n])
                     THEN [kind |-> "UnknownSymbol",
                           token |-> ps[CHOOSE n \in 1..Len(ps) :
                                          /\ ~HasObject(ps[n])
                                          /\ \A q \in 1..(n-1) : HasObject(ps[q])]]
                     ELSE [kind |-> "action",
                           instance |-> [action |-> res.group1, params |-> ps]]
             ELSE [kind |-> "UPException"]

RECURSIVE ParseFrom(_, _, _)
\* the for loop over plan.readlines() from line i on, with `actions` so far
ParseFrom(file, i, actions) ==
    IF i > Len(file)
    THEN [ok |-> TRUE, plan |-> actions, err |-> "none", at |-> 0, token |-> <<>>]
    ELSE LET r == ParseLine(file[i])
         IN  IF r.kind = "skip" THEN ParseFrom(file, i + 1, actions)
             ELSE IF r.kind = "action"
             THEN ParseFrom(file, i + 1, Append(actions, r.instance))
             ELSE [ok |-> FALSE, plan |-> <<>>, err |-> r.kind, at |-> i,
                   token |-> IF r.kind = "UnknownSymbol" THEN r.token ELSE <<>>]

\* the loop stopped one line early
PlanFromFileDropLast(file) == ParseFrom(SubSeq(file, 1, Len(file) - 1), 1, <<>>)

\* _plan_from_file(problem, plan_filename)
PlanFromFile(file) == ParseFrom(file, 1, <<>>)

\* the plan files a child may leave behind
PlanFiles ==
    { << <<"(", "m", " ", "a", " ", "b", ")">> >>,                \* (m a b)
      << <<"(", "m", " ", "a", " ", "b">> >>,                     \* (m a b
      << <<";", "x">>, <<" ">>, <<"(", "m", ")">> >>,             \* comment, blank, (m)
      << <<"(", "m", " ", "a", ")">>, <<"m", " ", "a">> >>,       \* (m a) then bare m a
      << <<"(", "x", " ", "a", ")">> >> }                         \* unknown action x

\* _plan_from_file on each of these files
PlanFileParse == [f \in PlanFiles |-> PlanFromFile(f)]

\* _plan_from_file on any file
ParseOf(f) == IF f \in DOMAIN PlanFileParse THEN PlanFileParse[f] ELSE PlanFromFile(f)

----------------------------------------------------------------------------
(* Plan texts for the parser alone: every file of up to MaxLines lines,     *)
(* each line an action written in one of four ways, a blank or comment      *)
(* line, or a broken line                                                   *)

MaxLines == 2      \* lines of a plan text

RECURSIVE JoinTokens(_, _)
\* the tokens, each preceded by sep
JoinTokens(tokens, sep) ==
    IF tokens = <<>> THEN <<>>
    ELSE sep \o Head(tokens) \o JoinTokens(Tail(tokens), sep)

\* (name p1 p2 ...)
RenderParen(name, ps) == <<"(">> \o name \o JoinTokens(ps, <<" ">>) \o <<")">>
\* the same with whitespace wherever the format allows it
RenderPadded(name, ps) ==
    <<" ", "(", " ">> \o name \o JoinTokens(ps, <<" ", " ">>) \o <<" ", ")", " ">>
\* name p1 p2 ...
RenderBare(name, ps) == name \o JoinTokens(ps, <<" ">>)
\* name(p1 p2 ...)
RenderCall(name, ps) ==
    name \o <<"(">> \o (IF ps = <<>> THEN <<>> ELSE Tail(JoinTokens(ps, <<" ">>)))
         \o <<")">>

\* names and parameter lists written in plan texts: x is in no registry
LineNames == ActionNames \cup { <<"x">> }
ParamLists ==
    { <<>>, << <<"a">> >>, << <<"b">>, <<"a">> >>, << <<"a">>, <<"x">> >> }

ActionTextLines ==
    UNION { { RenderParen(n, ps), RenderPadded(n, ps), RenderBare(n, ps),
              RenderCall(n, ps) } : n \in LineNames, ps \in ParamLists }

\* lines of whitespace only, and lines whose first non-blank character is ;
SkippedTextLines ==
    { <<>>, <<" ", " ">>, <<";", "x", " ", "(">>, <<" ", ";", "(", "m", ")">> }

\* lines that are neither
BrokenTextLines ==
    { <<"(", "m", " ", "a">>, <<"m", " ", "a", ")">>,
      <<"(", "m", " ", "(", "a", ")", ")">>, <<"(", ")">>,
      <<"(", "m", ")", ";">> }

TextLines == ActionTextLines \cup SkippedTextLines \cup BrokenTextLines

ParseFiles == UNION { [1..n -> TextLines] : n \in 0..MaxLines }

----------------------------------------------------------------------------
(* State after construction, before solve is entered *)

Statuses == {"SUCCESS", "UNSOLVABLE", "TIMEOUT", "INTERNAL_ERROR", "UNSUPPORTED"}

\* the state of a call at position p, before any child has been spawned
InitAt(p, dir) ==
    /\ pc = p
    /\ tempdir = dir
    /\ plan_file = None
    /\ timeout \in {None} \cup {Some(t) : t \in 1..MaxTimeout}
    /\ output_stream \in {None, Some(<<>>)}
    /\ clock = 0
    /\ proc = "none"
    /\ returncode = None
    /\ open = [i \in Streams |-> FALSE]
    /\ pipe = [i \in Streams |-> <<>>]
    /\ nwrites = 0
    /\ idx = 0
    /\ lines = [i \in Streams |-> <<>>]
    /\ oks = [i \in Streams |-> TRUE]
    /\ process_output = [i \in Streams |-> <<>>]
    /\ timeout_occoured = FALSE
    /\ logs = <<>>
    /\ plan = None
    /\ outcome = None
    /\ error = "none"
    /\ exited_at = -1
    /\ child_acted = FALSE
    /\ consumed = [i \in Streams |-> <<>>]
    /\ kills = 0
    /\ plan_seen = None
    /\ classifier_calls = 0
    /\ classifier_result = None

Init == InitAt("start", FALSE)

runVars == <<clock, proc, returncode, open, pipe, nwrites, idx, lines, oks,
             process_output, timeout_occoured, output_stream, exited_at,
             child_acted, consumed, kills>>
solveVars == <<logs, plan, outcome, plan_seen, classifier_calls,
               classifier_result>>

----------------------------------------------------------------------------
(* solve, up to the call of run_command *)

\* a directory that is removed only when the block ends normally
TempDirExitKeepOnError(exc) == exc

\* TemporaryDirectory.__exit__: whether the directory exists after the
\* with block is left (exc: by an exception)
TempDirExit(exc) == FALSE

\* an exception leaves solve through the with block
Raise(e) ==
    /\ pc' = "raised"
    /\ error' = e
    /\ tempdir' = TempDirExit(TRUE)
    /\ plan_file' = IF tempdir' THEN plan_file ELSE None

\* with tempfile.TemporaryDirectory() as tempdir
EnterTempdir ==
    /\ pc = "start"
    /\ pc' = "write"
    /\ tempdir' = TRUE
    /\ UNCHANGED <<plan_file, timeout, error, runVars, solveVars>>

\* w.write_domain(...); w.write_problem(...)
WriteInputs ==
    /\ pc = "write"
    /\ pc' = "get_cmd"
    /\ UNCHANGED <<tempdir, plan_file, timeout, error, runVars, solveVars>>

\* the writer raises
WriteFails ==
    /\ pc = "write"
    /\ Raise("WriterError")
    /\ UNCHANGED <<timeout, runVars, solveVars>>

\* cmd = self._get_cmd(...)
GetCmd ==
    /\ pc = "get_cmd"
    /\ pc' = "spawn"
    /\ UNCHANGED <<tempdir, plan_file, timeout, error, runVars, solveVars>>

\* _get_cmd raises (NotImplementedError in the base class)
GetCmdFails ==
    /\ pc = "get_cmd"
    /\ Raise("NotImplementedError")
    /\ UNCHANGED <<timeout, runVars, solveVars>>

----------------------------------------------------------------------------
(* run_command *)

\* a spawn failure swallowed and reported as a timed-out run
SpawnFailsAsTimeout ==
    /\ pc = "spawn"
    /\ pc' = "logs"
    /\ timeout_occoured' = TRUE
    /\ returncode' = Some(KillCode)
    /\ UNCHANGED <<tempdir, plan_file, timeout, error, clock, proc, open, pipe,
                   nwrites, idx, lines, oks, process_output, output_stream,
                   exited_at, child_acted, solveVars, consumed, kills>>

\* asyncio.create_subprocess_exec raises: the exception leaves run_command,
\* run_until_complete, the try/finally (loop.close()) and the with block
SpawnFails ==
    /\ pc = "spawn"
    /\ Raise("SpawnError")
    /\ UNCHANGED <<timeout, runVars, solveVars>>

\* start = time.time(); process = await create_subprocess_exec(...);
\* timeout_occoured = False; process_output = ([], []); first loop entry
Spawn ==
    /\ pc = "spawn"
    /\ pc' = "read"
    /\ proc' = "running"
    /\ open' = [i \in Streams |-> TRUE]
    /\ clock' = 0
    /\ timeout_occoured' = FALSE
    /\ process_output' = [i \in Streams |-> <<>>]
    /\ lines' = [i \in Streams |-> <<>>]
    /\ oks' = [i \in Streams |-> TRUE]
    /\ idx' = 0
    /\ UNCHANGED <<tempdir, plan_file, timeout, error, returncode, pipe,
                   nwrites, output_stream, exited_at, child_acted, consumed, kills,
                   solveVars>>

\* the for loop moves on to the next stream, or ends
NextStream ==
    IF idx = 0 THEN idx' = 1 /\ pc' = "read"
               ELSE idx' = idx /\ pc' = "cycle"

\* stream.readline() awaited without wait_for
PollNeverExpires(i) == FALSE

\* asyncio.wait_for(stream.readline(), 0.5): the 0.5 s expire with no line
\* and no end of stream
PollExpires(i) == pipe[i] = <<>> /\ open[i]

\* lines[idx] = await wait_for(stream.readline(), 0.5): a line is there
ReadLine ==
    /\ pc = "read"
    /\ pipe[idx] # <<>>
    /\ lines' = [lines EXCEPT ![idx] = Head(pipe[idx])]
    /\ pipe' = [pipe EXCEPT ![idx] = Tail(pipe[idx])]
    /\ consumed' = [consumed EXCEPT ![idx] = consumed[idx] \o Head(pipe[idx])]
    /\ NextStream
    /\ UNCHANGED <<tempdir, plan_file, timeout, error, clock, proc, returncode,
                   open, nwrites, oks, process_output, timeout_occoured,
                   output_stream, exited_at, child_acted, solveVars, kills>>

\* readline returns b"" at end of stream
ReadEOF ==
    /\ pc = "read"
    /\ pipe[idx] = <<>> /\ ~open[idx]
    /\ lines' = [lines EXCEPT ![idx] = <<>>]
    /\ NextStream
    /\ UNCHANGED <<tempdir, plan_file, timeout, error, clock, proc, returncode,
                   open, pipe, nwrites, oks, process_output, timeout_occoured,
                   output_stream, exited_at, child_acted, solveVars, consumed, kills>>

\* except asyncio.TimeoutError: oks[idx] = False
ReadTimeout ==
    /\ pc = "read"
    /\ PollExpires(idx)
    /\ oks' = [oks EXCEPT ![idx] = FALSE]
    /\ clock' = Min(clock + 1, MaxClock)
    /\ NextStream
    /\ UNCHANGED <<tempdir, plan_file, timeout, error, proc, returncode, open,
                   pipe, nwrites, lines, process_output, timeout_occoured,
                   output_stream, exited_at, child_acted, solveVars, consumed, kills>>

\* the end-of-stream test without all(oks)
IsEOFIgnoringOks == lines[0] = <<>> /\ lines[1] = <<>>

\* all(oks) and (not lines[0] and not lines[1])
IsEOF == oks[0] /\ oks[1] /\ lines[0] = <<>> /\ lines[1] = <<>>

\* the elapsed-time test made only in cycles whose reads all completed
DeadlineReachedOnlyAfterData ==
    timeout # None /\ clock >= timeout[1] /\ oks[0] /\ oks[1]

\* a missing timeout read as a timeout of zero
DeadlineReachedNoneAsZero ==
    clock >= (IF timeout = None THEN 0 ELSE timeout[1])

\* timeout is not None and time.time() - start >= timeout
DeadlineReached == timeout # None /\ clock >= timeout[1]

\* list.append(output_string); an empty output_string is not recorded: the
\* lists are only ever read through ''.join
AppendChunk(list, s) == IF s = <<>> THEN list ELSE Append(list, s)

\* output_string = lines[idx].decode().replace('\r\n', '\n')
OutputString(i) == ReplaceCRLF(lines[i])

\* output_stream.write(output_string) made for stdout only
SinkAfterCycleStdoutOnly ==
    IF output_stream = None THEN None
    ELSE Some(AppendChunk(output_stream[1],
                          IF OutputString(0) = <<>> THEN <<>>
                          ELSE <<0, OutputString(0)>>))

\* output_stream.write(output_string) for idx 0, then 1 (the stream of each
\* chunk is kept with it)
SinkAfterCycle ==
    IF output_stream = None THEN None
    ELSE Some(AppendChunk(AppendChunk(output_stream[1],
                                      IF OutputString(0) = <<>> THEN <<>>
                                      ELSE <<0, OutputString(0)>>),
                          IF OutputString(1) = <<>> THEN <<>>
                          ELSE <<1, OutputString(1)>>))

\* the else branch of the EOF test
Accumulate ==
    /\ process_output' = [i \in Streams |->
                             AppendChunk(process_output[i], OutputString(i))]
    /\ output_stream' = SinkAfterCycle

\* if all(oks) and ...: break
CycleEOF ==
    /\ pc = "cycle"
    /\ IsEOF
    /\ pc' = "wait"
    /\ UNCHANGED <<tempdir, plan_file, timeout, error, clock, proc, returncode,
                   open, pipe, nwrites, idx, lines, oks, process_output,
                   timeout_occoured, output_stream, exited_at, child_acted,
                   solveVars, consumed, kills>>

\* else branch, deadline not reached: next iteration of while True
CycleContinue ==
    /\ pc = "cycle"
    /\ ~IsEOF
    /\ ~DeadlineReached
    /\ Accumulate
    /\ pc' = "read"
    /\ idx' = 0
    /\ lines' = [i \in Streams |-> <<>>]
    /\ oks' = [i \in Streams |-> TRUE]
    /\ UNCHANGED <<tempdir, plan_file, timeout, error, clock, proc, returncode,
                   open, pipe, nwrites, timeout_occoured, exited_at,
                   child_acted, solveVars, consumed, kills>>

\* the deadline test made before the cycle's chunks are appended
CycleDeadlineDropsCycle ==
    /\ pc = "cycle"
    /\ ~IsEOF
    /\ DeadlineReached
    /\ IF proc = "running"
       THEN /\ proc' = "exited"
            /\ returncode' = Some(KillCode)
            /\ open' = [i \in Streams |-> FALSE]
            /\ exited_at' = clock
       ELSE UNCHANGED <<proc, returncode, open, exited_at>>
    /\ timeout_occoured' = TRUE
    /\ kills' = kills + 1
    /\ pc' = "wait"
    /\ UNCHANGED <<tempdir, plan_file, timeout, error, clock, pipe, nwrites,
                   idx, lines, oks, child_acted, solveVars, consumed,
                   process_output, output_stream>>

\* else branch, deadline reached: process.kill() (OSError swallowed when the
\* child has exited already); timeout_occoured = True; break
CycleDeadline ==
    /\ pc = "cycle"
    /\ ~IsEOF
    /\ DeadlineReached
    /\ Accumulate
    /\ IF proc = "running"
       THEN /\ proc' = "exited"
            /\ returncode' = Some(KillCode)
            /\ open' = [i \in Streams |-> FALSE]
            /\ exited_at' = clock
       ELSE UNCHANGED <<proc, returncode, open, exited_at>>
    /\ timeout_occoured' = TRUE
    /\ kills' = kills + 1
    /\ pc' = "wait"
    /\ UNCHANGED <<tempdir, plan_file, timeout, error, clock, pipe, nwrites,
                   idx, lines, oks, child_acted, solveVars, consumed>>

\* run_command returns without await process.wait()
ProcessWaitWithoutExit ==
    /\ pc = "wait"
    /\ pc' = "logs"
    /\ UNCHANGED <<tempdir, plan_file, timeout, error, runVars, solveVars>>

\* await process.wait() returns; run_command returns; loop.close()
ProcessWait ==
    /\ pc = "wait"
    /\ proc = "exited"
    /\ pc' = "logs"
    /\ UNCHANGED <<tempdir, plan_file, timeout, error, runVars, solveVars>>

\* time passes in await process.wait() while the child runs
WaitTick ==
    /\ pc = "wait"
    /\ proc = "running"
    /\ clock < MaxClock
    /\ clock' = clock + 1
    /\ UNCHANGED <<pc, tempdir, plan_file, timeout, error, proc, returncode,
                   open, pipe, nwrites, idx, lines, oks, process_output,
                   timeout_occoured, output_stream, exited_at, child_acted,
                   solveVars, consumed, kills>>

----------------------------------------------------------------------------
(* The child process *)

\* the child writes a line to stdout (0) or stderr (1); blocks on a full pipe
ChildWrite(i, line) ==
    /\ proc = "running"
    /\ open[i]
    /\ Len(pipe[i]) < PipeCap
    /\ nwrites < MaxWrites
    /\ pipe' = [pipe EXCEPT ![i] = Append(pipe[i], line)]
    /\ nwrites' = nwrites + 1
    /\ child_acted' = TRUE
    /\ UNCHANGED <<pc, tempdir, plan_file, timeout, error, clock, proc,
                   returncode, open, idx, lines, oks, process_output,
                   timeout_occoured, output_stream, exited_at, solveVars, consumed, kills>>

\* the child closes one of its streams and keeps running
ChildClose(i) ==
    /\ proc = "running"
    /\ open[i]
    /\ open' = [open EXCEPT ![i] = FALSE]
    /\ child_acted' = TRUE
    /\ UNCHANGED <<pc, tempdir, plan_file, timeout, error, clock, proc,
                   returncode, pipe, nwrites, idx, lines, oks, process_output,
                   timeout_occoured, output_stream, exited_at, solveVars, consumed, kills>>

\* the child writes the plan file
ChildWritePlan(f) ==
    /\ proc = "running"
    /\ tempdir
    /\ plan_file = None
    /\ plan_file' = Some(f)
    /\ UNCHANGED <<pc, tempdir, timeout, error, runVars, solveVars>>

\* the child exits on its own
ChildExit(c) ==
    /\ proc = "running"
    /\ proc' = "exited"
    /\ returncode' = Some(c)
    /\ open' = [i \in Streams |-> FALSE]
    /\ exited_at' = clock
    /\ child_acted' = TRUE
    /\ UNCHANGED <<pc, tempdir, plan_file, timeout, error, clock, pipe,
                   nwrites, idx, lines, oks, process_output, timeout_occoured,
                   output_stream, solveVars, consumed, kills>>

----------------------------------------------------------------------------
(* solve, after run_command has returned *)

\* log messages appended only for non-empty output
AttachLogsSkipEmpty(out, err) ==
    (IF out = <<>> THEN <<>> ELSE <<[level |-> "INFO", message |-> Join(out)]>>)
    \o (IF err = <<>> THEN <<>> ELSE <<[level |-> "ERROR", message |-> Join(err)]>>)

\* logs.append(LogMessage(INFO, ''.join(proc_out)));
\* logs.append(LogMessage(ERROR, ''.join(proc_err)))
AttachLogsTo(out, err) ==
    << [level |-> "INFO", message |-> Join(out)],
       [level |-> "ERROR", message |-> Join(err)] >>

AttachLogs ==
    /\ pc = "logs"
    /\ logs' = logs \o AttachLogsTo(process_output[0], process_output[1])
    /\ pc' = "isfile"
    /\ UNCHANGED <<tempdir, plan_file, timeout, error, runVars, plan, outcome,
                   plan_seen, classifier_calls, classifier_result>>

\* os.path.isfile(plan_filename) is false
NoPlanFile ==
    /\ pc = "isfile"
    /\ plan_file = None
    /\ plan_seen' = None
    /\ pc' = "decide"
    /\ UNCHANGED <<tempdir, plan_file, timeout, error, runVars, logs, plan,
                   outcome, classifier_calls, classifier_result>>

\* plan = self._plan_from_file(problem, plan_filename)
ParsePlan ==
    /\ pc = "isfile"
    /\ plan_file # None
    /\ ParseOf(plan_file[1]).ok
    /\ plan_seen' = plan_file
    /\ plan' = Some(ParseOf(plan_file[1]).plan)
    /\ pc' = "decide"
    /\ UNCHANGED <<tempdir, plan_file, timeout, error, runVars, logs, outcome,
                   classifier_calls, classifier_result>>

\* _plan_from_file raises
ParseFails ==
    /\ pc = "isfile"
    /\ plan_file # None
    /\ ~ParseOf(plan_file[1]).ok
    /\ plan_seen' = plan_file
    /\ Raise(ParseOf(plan_file[1]).err)
    /\ UNCHANGED <<timeout, runVars, logs, plan, outcome, classifier_calls,
                   classifier_result>>

\* timeout_occurred alone
IsTimeoutOutcomeIgnoringRetval(to, rv) == to

\* timeout_occurred and retval == 0
IsTimeoutOutcomeOnZero(to, rv) == to /\ rv = 0

\* timeout_occurred and retval != 0
IsTimeoutOutcome(to, rv) == to /\ rv # 0

PlanGenerationResult(status, p, log_messages) ==
    [status |-> status, plan |-> p, log_messages |-> log_messages]

\* the TIMEOUT result built without log_messages
ReturnTimeoutWithoutLogs ==
    /\ pc = "decide"
    /\ IsTimeoutOutcome(timeout_occoured, returncode[1])
    /\ outcome' = Some(PlanGenerationResult("TIMEOUT", plan, <<>>))
    /\ pc' = "returned"
    /\ tempdir' = TempDirExit(FALSE)
    /\ plan_file' = IF tempdir' THEN plan_file ELSE None
    /\ UNCHANGED <<timeout, error, runVars, logs, plan, plan_seen,
                   classifier_calls, classifier_result>>

\* return PlanGenerationResult(TIMEOUT, plan=plan, log_messages=logs, ...)
\* from inside the with block
ReturnTimeout ==
    /\ pc = "decide"
    /\ IsTimeoutOutcome(timeout_occoured, returncode[1])
    /\ outcome' = Some(PlanGenerationResult("TIMEOUT", plan, logs))
    /\ pc' = "returned"
    /\ tempdir' = TempDirExit(FALSE)
    /\ plan_file' = IF tempdir' THEN plan_file ELSE None
    /\ UNCHANGED <<timeout, error, runVars, logs, plan, plan_seen,
                   classifier_calls, classifier_result>>

\* the classifier called from inside the with block
LeaveTempdirLate ==
    /\ pc = "decide"
    /\ ~IsTimeoutOutcome(timeout_occoured, returncode[1])
    /\ pc' = "classify"
    /\ UNCHANGED <<tempdir, plan_file, timeout, error, runVars, solveVars>>

\* the with block ends normally
LeaveTempdir ==
    /\ pc = "decide"
    /\ ~IsTimeoutOutcome(timeout_occoured, returncode[1])
    /\ pc' = "classify"
    /\ tempdir' = TempDirExit(FALSE)
    /\ plan_file' = IF tempdir' THEN plan_file ELSE None
    /\ UNCHANGED <<timeout, error, runVars, solveVars>>

\* status = self._result_status(problem, plan);
\* return PlanGenerationResult(status, plan, log_messages=logs, ...)
Classify(status) ==
    /\ pc = "classify"
    /\ classifier_calls' = classifier_calls + 1
    /\ classifier_result' = Some(status)
    /\ outcome' = Some(PlanGenerationResult(status, plan, logs))
    /\ pc' = "returned"
    /\ UNCHANGED <<tempdir, plan_file, timeout, error, runVars, logs, plan,
                   plan_seen>>

\* _result_status raises (NotImplementedError in the base class)
ClassifierFails ==
    /\ pc = "classify"
    /\ classifier_calls' = classifier_calls + 1
    /\ pc' = "raised"
    /\ error' = "ClassificationError"
    /\ UNCHANGED <<tempdir, plan_file, timeout, runVars, logs, plan, outcome,
                   plan_seen, classifier_result>>

----------------------------------------------------------------------------

\* the steps of run_command
RunCommandStep ==
    \/ SpawnFails \/ Spawn
    \/ ReadLine \/ ReadEOF \/ ReadTimeout
    \/ CycleEOF \/ CycleContinue \/ CycleDeadline
    \/ ProcessWait

\* the steps of solve around it
SolveStep ==
    \/ EnterTempdir \/ WriteInputs \/ WriteFails \/ GetCmd \/ GetCmdFails
    \/ AttachLogs \/ NoPlanFile \/ ParsePlan \/ ParseFails
    \/ ReturnTimeout \/ LeaveTempdir
    \/ ClassifierFails
    \/ \E status \in Statuses : Classify(status)

\* what the child does to its streams and to itself, and the time that
\* passes while the runner waits for it
ChildStep ==
    \/ \E i \in Streams, line \in ChildLines : ChildWrite(i, line)
    \/ \E i \in Streams : ChildClose(i)
    \/ \E c \in ExitCodes : ChildExit(c)
    \/ WaitTick

Next ==
    \/ SolveStep
    \/ RunCommandStep
    \/ ChildStep
    \/ \E f \in PlanFiles : ChildWritePlan(f)

Spec == Init /\ [][Next]_vars

(* run_command alone, from its call to its return, under the scheduling of  *)
(* the event loop: the coroutine runs whenever it can continue, and every   *)
(* wait inside the polling loop is bounded by the 0.5 s timer.  Nothing is  *)
(* assumed of the child.                                                    *)

RunInit == InitAt("spawn", TRUE)

RunNext == RunCommandStep \/ ChildStep

RunSpec == RunInit /\ [][RunNext]_vars /\ WF_vars(RunCommandStep)

(* _plan_from_file alone: solve at the test of os.path.isfile, after a run  *)
(* in which the child wrote nothing to its streams, left any of the plan    *)
(* texts (or none) and exited 0                                             *)

ParseInit ==
    /\ pc = "isfile"
    /\ tempdir = TRUE
    /\ plan_file \in {None} \cup {Some(f) : f \in ParseFiles}
    /\ timeout = None
    /\ output_stream = None
    /\ clock = 0
    /\ proc = "exited"
    /\ returncode = Some(0)
    /\ open = [i \in Streams |-> FALSE]
    /\ pipe = [i \in Streams |-> <<>>]
    /\ nwrites = 0
    /\ idx = 1
    /\ lines = [i \in Streams |-> <<>>]
    /\ oks = [i \in Streams |-> TRUE]
    /\ process_output = [i \in Streams |-> <<>>]
    /\ timeout_occoured = FALSE
    /\ logs = AttachLogsTo(<<>>, <<>>)
    /\ plan = None
    /\ outcome = None
    /\ error = "none"
    /\ exited_at = 0
    /\ child_acted = TRUE
    /\ consumed = [i \in Streams |-> <<>>]
    /\ kills = 0
    /\ plan_seen = None
    /\ classifier_calls = 0
    /\ classifier_result = None

ParseNext == NoPlanFile \/ ParsePlan \/ ParseFails

ParseSpec == ParseInit /\ [][ParseNext]_vars

----------------------------------------------------------------------------
(* Properties *)

\* run_command has returned to solve
RunReturned == proc # "none" /\ pc \notin {"read", "cycle", "wait"}

\* the solve call is over
SolveEnded == pc \in {"returned", "raised"}

\* C1: when a timeout is given and it elapses before the child exits,
\* run_command returns timed_out = true, with the child no longer running;
\* stated of every run that has returned.
C1_TimeoutEnforced ==
    (RunReturned /\ timeout # None /\ exited_at > timeout[1])
        => (timeout_occoured /\ proc = "exited")

\* C2: with a timeout given, a child that keeps both streams open, writes
\* nothing and never exits is eventually killed, and run_command returns
\* timed_out = true: from every point of the polling loop either the child
\* does something or the run ends timed out.
C2_SilentHangDetected ==
    (pc = "read" /\ timeout # None /\ ~child_acted)
        ~> (child_acted \/ (RunReturned /\ timeout_occoured))

\* a run that ended by the kill of a child that never did anything
C2_Witness ==
    /\ RunReturned /\ timeout_occoured /\ ~child_acted
    /\ returncode = Some(KillCode)
    /\ process_output = [i \in Streams |-> <<>>]

\* C3: draining cannot deadlock or starve a stream: on either stream, the
\* k-th line the child has written is eventually read and accumulated, or
\* the deadline fires, whatever the other stream does.
C3_NoStarvation ==
    \A i \in Streams : \A k \in 1..MaxWrites :
        (Len(process_output[i]) + Len(pipe[i]) >= k)
            ~> (Len(process_output[i]) >= k \/ timeout_occoured)

\* stdout was flooded (every line the child may write) and drained while
\* stderr stayed open and silent, with no deadline
C3_Witness ==
    /\ Len(process_output[0]) = MaxWrites
    /\ process_output[1] = <<>> /\ consumed[1] = <<>>
    /\ open[1] /\ proc = "running" /\ timeout = None

\* C4: a spawn failure leaves solve as an error: no result of run_command,
\* no outcome, no timed_out flag.
C4_SpawnFailurePropagates ==
    (/\ proc = "none"
     /\ pc \notin {"start", "write", "get_cmd", "spawn"}
     /\ error \notin {"WriterError", "NotImplementedError"})
        => (/\ pc = "raised" /\ error = "SpawnError"
            /\ outcome = None /\ ~timeout_occoured /\ logs = <<>>
            /\ classifier_calls = 0)

C4_Witness == pc = "raised" /\ error = "SpawnError" /\ outcome = None

\* the plan the parser makes of the plan file seen, <<>> without a file
ParsedPlan ==
    IF plan_seen = None THEN None ELSE Some(PlanFromFile(plan_seen[1]).plan)

\* the plan file seen, if any, parses
ParseSucceeds == plan_seen = None \/ PlanFromFile(plan_seen[1]).ok

\* C5 as stated: whenever the run timed out with a non-zero exit code, solve
\* returns an outcome with status TIMEOUT, whatever the plan file holds.
C5_Original ==
    (SolveEnded /\ RunReturned /\ timeout_occoured /\ returncode # Some(0))
        => (pc = "returned" /\ outcome[1].status = "TIMEOUT")

\* C5 as amended: whenever the run timed out with a non-zero exit code and
\* the plan file is absent or parses, solve returns status TIMEOUT with the
\* parsed plan (or none) without invoking the classifier; when the plan file
\* does not parse, the parse error leaves solve instead.
C5_TimeoutUnlessParseFails ==
    (SolveEnded /\ RunReturned /\ timeout_occoured /\ returncode # Some(0))
        => IF ParseSucceeds
           THEN /\ pc = "returned"
                /\ outcome[1].status = "TIMEOUT"
                /\ outcome[1].plan = ParsedPlan
                /\ classifier_calls = 0
           ELSE /\ pc = "raised"
                /\ error = PlanFromFile(plan_seen[1]).err
                /\ outcome = None

\* a TIMEOUT outcome that carries a parsed plan
C5_Witness ==
    /\ pc = "returned" /\ timeout_occoured /\ returncode = Some(KillCode)
    /\ outcome[1].status = "TIMEOUT"
    /\ plan_seen # None /\ outcome[1].plan # None

\* C6: when the run did not time out, or timed out with exit code 0, the
\* status returned is the one _result_status returned for the parsed plan
\* (or none), invoked once.
C6_ClassifierDecides ==
    (pc = "returned" /\ ~(timeout_occoured /\ returncode # Some(0)))
        => /\ classifier_calls = 1
           /\ classifier_result = Some(outcome[1].status)
           /\ outcome[1].plan = ParsedPlan

\* the run timed out, the child had exited 0 before the kill, and the
\* classifier chose a status other than TIMEOUT
C6_Witness ==
    /\ pc = "returned" /\ timeout_occoured /\ returncode = Some(0)
    /\ outcome[1].status = "SUCCESS"

\* the text captured from stream i: all bytes read from it, after the
\* newline conversion
CapturedText(i) == ReplaceCRLF(consumed[i])

\* the outcome carries the captured text of both streams
CarriesLogs(o) ==
    \A i \in Streams :
        \E n \in 1..Len(o.log_messages) :
            o.log_messages[n].message = CapturedText(i)

\* C7 as stated: every solve call, the failing ones included, ends by
\* returning an outcome that carries the captured stdout and stderr.
C7_Original ==
    (SolveEnded /\ error \notin {"WriterError", "NotImplementedError"})
        => (pc = "returned" /\ outcome # None /\ CarriesLogs(outcome[1]))

\* C7 as amended: every solve call that returns, by the classifier or with
\* TIMEOUT, returns an outcome that carries all captured stdout and stderr;
\* a call that fails (writer, command, spawn, plan parse, classifier) ends
\* with the error and without an outcome.
C7_LogsOnEveryReturn ==
    SolveEnded
        => IF error = "none"
           THEN pc = "returned" /\ outcome # None /\ CarriesLogs(outcome[1])
           ELSE pc = "raised" /\ outcome = None

\* a TIMEOUT outcome whose logs hold output read before the kill
C7_Witness ==
    /\ pc = "returned" /\ outcome[1].status = "TIMEOUT"
    /\ consumed[0] # <<>> /\ consumed[1] # <<>>
    /\ CarriesLogs(outcome[1])

\* C8: every outcome returned carries exactly two log messages: INFO with
\* the joined stdout chunks, then ERROR with the joined stderr chunks, each
\* there also when its text is empty.
C8_TwoLogMessages ==
    pc = "returned"
        => outcome[1].log_messages =
              << [level |-> "INFO", message |-> Join(process_output[0])],
                 [level |-> "ERROR", message |-> Join(process_output[1])] >>

\* an outcome with text on stdout and an empty ERROR message
C8_Witness ==
    /\ pc = "returned"
    /\ process_output[0] # <<>> /\ process_output[1] = <<>>
    /\ Len(outcome[1].log_messages) = 2
    /\ outcome[1].log_messages[2].message = <<>>

\* line n of the file is neither blank/comment nor a well-formed action line
IsMalformedLine(line) == ~IsBlankOrComment(line) /\ ~MatchAction(line).matched

\* the first line of the file that is not skipped and not resolved: 0 if none
FirstFailingLine(file) ==
    IF \E n \in 1..Len(file) : ParseLine(file[n]).kind \notin {"skip", "action"}
    THEN CHOOSE n \in 1..Len(file) :
            /\ ParseLine(file[n]).kind \notin {"skip", "action"}
            /\ \A q \in 1..(n - 1) : ParseLine(file[q]).kind \in {"skip", "action"}
    ELSE 0

\* C9: a plan file with a malformed line makes the parse fail, at that line
\* when no earlier line fails, with no partial plan; solve ends with the
\* error and returns no outcome.
C9_MalformedLineAborts ==
    (plan_seen # None
     /\ \E n \in 1..Len(plan_seen[1]) : IsMalformedLine(plan_seen[1][n]))
        => /\ pc = "raised"
           /\ outcome = None /\ plan = None
           /\ error \in {"UPException", "UnknownSymbol"}
           /\ IsMalformedLine(plan_seen[1][FirstFailingLine(plan_seen[1])])
                 => error = "UPException"

\* the parse failed on a bare line that follows a well-formed action line
C9_Witness ==
    /\ pc = "raised" /\ error = "UPException"
    /\ plan_seen # None /\ Len(plan_seen[1]) = 2
    /\ ParseLine(plan_seen[1][1]).kind = "action"
    /\ IsMalformedLine(plan_seen[1][2])

\* C10: once solve has returned or raised, the temporary directory and the
\* plan file in it no longer exist.
C10_WorkspaceRemoved == SolveEnded => (~tempdir /\ plan_file = None)

\* solve raised on a plan file that was there, and the directory is gone
C10_Witness ==
    /\ pc = "raised" /\ error = "UPException" /\ plan_seen # None
    /\ ~tempdir /\ plan_file = None

----------------------------------------------------------------------------
(* Properties of the plan parser *)

\* parameter lists whose names all resolve
KnownParamLists ==
    { ps \in ParamLists : \A k \in 1..Len(ps) : ps[k] \in ObjectNames }

\* the ActionInstance of a name and a parameter list
Instance(n, ps) == [action |-> n, params |-> ps]

\* C11 as stated: for every known action name and parameter list, the bare
\* line and the line name(p1 ...) parse, without error, into the
\* ActionInstance of the parenthesized line.
C11_Original ==
    \A n \in ActionNames, ps \in KnownParamLists :
        plan_seen \in { Some(<<RenderBare(n, ps)>>), Some(<<RenderCall(n, ps)>>),
                        Some(<<RenderParen(n, ps)>>) }
            => (pc = "decide" /\ plan = Some(<<Instance(n, ps)>>))

\* C11 as amended: the parentheses are required.  For every known action
\* name and parameter list the line (name p1 ...), with or without extra
\* whitespace, parses into its ActionInstance; the bare line and the line
\* name(p1 ...) make the parse fail with the malformed-line error, and no
\* plan is made.
C11_ParenthesesRequired ==
    \A n \in ActionNames, ps \in KnownParamLists :
        /\ plan_seen \in { Some(<<RenderParen(n, ps)>>),
                           Some(<<RenderPadded(n, ps)>>) }
              => (pc = "decide" /\ plan = Some(<<Instance(n, ps)>>))
        /\ plan_seen \in { Some(<<RenderBare(n, ps)>>),
                           Some(<<RenderCall(n, ps)>>) }
              => (pc = "raised" /\ error = "UPException" /\ plan = None)

\* the bare line m a b was rejected
C11_Witness ==
    /\ plan_seen = Some(<<RenderBare(<<"m">>, << <<"b">>, <<"a">> >>)>>)
    /\ pc = "raised" /\ error = "UPException"

\* the line is a parenthesized action line whose names all resolve
IsResolvedActionLine(l) ==
    \E n \in ActionNames, ps \in KnownParamLists :
        l \in { RenderParen(n, ps), RenderPadded(n, ps) }

\* the ActionInstance such a line was written from
InstanceWritten(l) ==
    CHOOSE inst \in { Instance(n, ps) : n \in ActionNames, ps \in KnownParamLists } :
        l \in { RenderParen(inst.action, inst.params),
                RenderPadded(inst.action, inst.params) }

\* the ActionInstances of the action lines of a text, in file order
PlanWritten(file) ==
    LET act == SelectSeq(file, IsResolvedActionLine)
    IN  [k \in 1..Len(act) |-> InstanceWritten(act[k])]

\* all lines are resolved action lines or blank/comment lines
IsWellFormedText(file) ==
    \A k \in 1..Len(file) :
        IsResolvedActionLine(file[k]) \/ file[k] \in SkippedTextLines

\* C12: a text of well-formed action lines and blank/comment lines whose
\* names all resolve parses into the ActionInstances of its action lines,
\* in file order, each with its name and its parameters in order.
C12_PlanInFileOrder ==
    (plan_seen # None /\ IsWellFormedText(plan_seen[1]))
        => (pc = "decide" /\ plan = Some(PlanWritten(plan_seen[1])))

\* two different action lines, parsed in their order
C12_Witness ==
    /\ plan_seen = Some(<< RenderParen(<<"m">>, << <<"b">>, <<"a">> >>),
                          RenderPadded(<<"m">>, << <<"a">> >>) >>)
    /\ plan = Some(<< Instance(<<"m">>, << <<"b">>, <<"a">> >>),
                      Instance(<<"m">>, << <<"a">> >>) >>)

\* the text with line c put after its first pos lines
InsertLine(file, pos, c) ==
    SubSeq(file, 1, pos) \o <<c>> \o SubSeq(file, pos + 1, Len(file))

\* C13: a blank or comment line put at any position of a text (hence also
\* taken out of one) does not change the result of the parse: the same plan,
\* or the same failure.
C13_SkippedLinesNeutral ==
    plan_seen # None =>
        \A pos \in 0..Len(plan_seen[1]), c \in SkippedTextLines :
            LET r == PlanFromFile(InsertLine(plan_seen[1], pos, c))
            IN  IF r.ok THEN pc = "decide" /\ plan = Some(r.plan)
                ELSE pc = "raised" /\ error = r.err /\ plan = None

\* an indented comment before an action line, and the plan of that line
C13_Witness ==
    /\ plan_seen = Some(<< <<" ", ";", "(", "m", ")">>,
                          RenderParen(<<"m">>, << <<"a">> >>) >>)
    /\ pc = "decide"
    /\ plan = Some(<< Instance(<<"m">>, << <<"a">> >>) >>)

\* the line is a parenthesized action line with an unresolved name
IsUnresolvedActionLine(l) ==
    \E n \in LineNames, ps \in ParamLists :
        /\ l \in { RenderParen(n, ps), RenderPadded(n, ps) }
        /\ n \notin ActionNames \/ ps \notin KnownParamLists

\* its first unresolved token: the action name, else the first such parameter
UnresolvedToken(l) ==
    LET w == CHOOSE w \in LineNames \X ParamLists :
                 l \in { RenderParen(w[1], w[2]), RenderPadded(w[1], w[2]) }
    IN  IF w[1] \notin ActionNames THEN w[1]
        ELSE w[2][CHOOSE k \in 1..Len(w[2]) :
                    /\ w[2][k] \notin ObjectNames
                    /\ \A q \in 1..(k - 1) : w[2][q] \in ObjectNames]

\* the first line of a text that is not a resolved action line nor skipped
FirstOtherLine(file) ==
    CHOOSE k \in 1..Len(file) :
        /\ ~IsResolvedActionLine(file[k]) /\ file[k] \notin SkippedTextLines
        /\ \A q \in 1..(k - 1) :
              IsResolvedActionLine(file[q]) \/ file[q] \in SkippedTextLines

\* C14: a well-formed action line whose action name or parameter is in no
\* registry makes the parse fail, and no plan is returned; when it is the
\* first failing line the error is the unknown-symbol error, not the
\* malformed-line error, and names the first unresolved token.
C14_UnknownSymbolFails ==
    (plan_seen # None
     /\ \E k \in 1..Len(plan_seen[1]) : IsUnresolvedActionLine(plan_seen[1][k]))
        => /\ pc = "raised" /\ plan = None /\ outcome = None
           /\ LET l == plan_seen[1][FirstOtherLine(plan_seen[1])]
              IN  IsUnresolvedActionLine(l)
                     => /\ error = "UnknownSymbol"
                        /\ PlanFromFile(plan_seen[1]).token = UnresolvedToken(l)

\* a resolved line, then a line with the unknown parameter x
C14_Witness ==
    /\ plan_seen = Some(<< RenderParen(<<"m">>, << <<"a">> >>),
                          RenderParen(<<"m">>, << <<"a">>, <<"x">> >>) >>)
    /\ pc = "raised" /\ error = "UnknownSymbol"

----------------------------------------------------------------------------
(* Properties of run_command *)

\* C15: the loop ends with timeout_occoured false only in a cycle in which
\* both reads completed (no polling timeout) and both returned no data, both
\* streams being at their end; the runner then stays in process.wait() until
\* the child has exited, and returns the child's exit code.
C15_NormalEndOnlyAtEOF ==
    /\ [][(pc = "cycle" /\ pc' = "wait" /\ ~timeout_occoured')
             => \A i \in Streams :
                   oks[i] /\ lines[i] = <<>> /\ pipe[i] = <<>> /\ ~open[i]]_vars
    /\ [][(pc = "wait" /\ pc' # "wait") => proc = "exited"]_vars
    /\ []((RunReturned /\ ~timeout_occoured)
             => (kills = 0 /\ proc = "exited" /\ returncode # None
                 /\ returncode[1] \in ExitCodes))

\* a run that read output and then ended normally with exit code 1
C15_Witness ==
    /\ RunReturned /\ ~timeout_occoured
    /\ returncode = Some(1)
    /\ consumed[0] # <<>>

\* the chunks written to the sink for stream i, in write order
SinkChunks(i) ==
    LET IsOf(w) == w[1] = i
        ws == SelectSeq(output_stream[1], IsOf)
    IN  [k \in 1..Len(ws) |-> ws[k][2]]

\* the chunk of stream i read in the current cycle and not yet appended
PendingChunk(i) == IF pc \in {"read", "cycle"} THEN OutputString(i) ELSE <<>>

\* C16: with a sink, the chunks written to it for a stream are, one for one
\* and in order, the chunks accumulated for that stream; with or without a
\* sink, the accumulated text of a stream is what was read from it, up to
\* the chunk of the current cycle.
C16_SinkMirrorsResult ==
    proc # "none" =>
        /\ output_stream # None
              => \A i \in Streams : SinkChunks(i) = process_output[i]
        /\ \A i \in Streams :
              Join(process_output[i]) \o PendingChunk(i) = CapturedText(i)

\* a returned run that wrote a chunk of each stream to the sink
C16_Witness ==
    /\ RunReturned /\ output_stream # None
    /\ \A i \in Streams : Len(SinkChunks(i)) = 1 /\ process_output[i] # <<>>

\* everything the child wrote to stream i, in its write order
Written(i) == consumed[i] \o Join(pipe[i])

\* s is a prefix of t
IsPrefix(s, t) == Len(s) <= Len(t) /\ SubSeq(t, 1, Len(s)) = s

\* C17 as stated: the returned text of a stream is a prefix of what the
\* child wrote to it, and on the normal path all of it.
C17_Original ==
    RunReturned =>
        \A i \in Streams :
            /\ IsPrefix(Join(process_output[i]), Written(i))
            /\ ~timeout_occoured => Join(process_output[i]) = Written(i)

\* C17 as amended: the returned text of a stream is, with every "\r\n"
\* replaced by "\n", the prefix of what the child wrote that was read up to
\* and including the last cycle; on the normal path that prefix is all the
\* child wrote.
C17_NormalisedPrefix ==
    RunReturned =>
        \A i \in Streams :
            /\ Join(process_output[i]) = ReplaceCRLF(consumed[i])
            /\ IsPrefix(consumed[i], Written(i))
            /\ ~timeout_occoured => consumed[i] = Written(i)

\* a timed-out run that returns a "\r\n" line of stdout as a "\n" line
C17_Witness ==
    /\ RunReturned /\ timeout_occoured
    /\ consumed[0] = <<"b", "CR", "LF">>
    /\ Join(process_output[0]) = <<"b", "LF">>

\* C18: when run_command has returned the child has exited, and the exit
\* code returned is the one set when it exited: the kill's code when the
\* kill ended it, its own code when it had exited before any kill.
C18_ReturnsAfterExit ==
    /\ [](RunReturned
             => /\ proc = "exited" /\ returncode # None
                /\ returncode[1] \in ExitCodes \cup {KillCode}
                /\ returncode[1] = KillCode => kills = 1)
    /\ [][returncode' # returncode
             => /\ proc = "running" /\ proc' = "exited" /\ returncode = None
                /\ IF kills' # kills THEN returncode' = Some(KillCode)
                   ELSE returncode'[1] \in ExitCodes]_vars
    /\ [][(kills' # kills /\ proc = "exited") => returncode' = returncode]_vars

\* a timed-out run whose child had exited with 0 before the kill
C18_Witness ==
    /\ RunReturned /\ timeout_occoured
    /\ returncode = Some(0)

\* C19: timeout_occoured is true exactly when process.kill() has been
\* called; it is called at most once, only at the end of a cycle that did
\* not end by end-of-stream and with the elapsed time at or past the
\* timeout; without a timeout it is never called.
C19_KillIffTimedOut ==
    /\ [](/\ timeout_occoured <=> kills = 1
          /\ kills \in {0, 1}
          /\ timeout = None => (kills = 0 /\ ~timeout_occoured))
    /\ [][kills' # kills
             => /\ kills' = kills + 1
                /\ pc = "cycle" /\ pc' = "wait"
                /\ \E i \in Streams : ~oks[i] \/ lines[i] # <<>>
                /\ timeout # None /\ clock >= timeout[1]]_vars

\* a run killed at its deadline while the child was running
C19_Witness ==
    /\ RunReturned /\ kills = 1 /\ timeout_occoured
    /\ returncode = Some(KillCode)

----------------------------------------------------------------------------
(* The order of the steps of solve *)

\* the step of solve a position belongs to: write inputs (1), build the
\* command (2), run (3, 4), attach logs (5), parse the plan file if it exists
\* (6), decide the status (7, 8), over (9)
StepOf(p) ==
    CASE p = "start" -> 0
      [] p = "write" -> 1
      [] p = "get_cmd" -> 2
      [] p = "spawn" -> 3
      [] p \in {"read", "cycle", "wait"} -> 4
      [] p = "logs" -> 5
      [] p = "isfile" -> 6
      [] p = "decide" -> 7
      [] p = "classify" -> 8
      [] p \in {"returned", "raised"} -> 9

\* C20: solve goes through its steps in their order, leaving none out
\* unless an exception ends the call or the TIMEOUT outcome is returned from
\* the decision; _result_status is invoked at most once, and only after the
\* run has returned, the logs are attached, the plan file seen (if any) has
\* parsed, the workspace is gone and the decision was not TIMEOUT; it has not
\* been invoked when solve returns the TIMEOUT outcome of a timed-out run or
\* when a spawn or parse error leaves solve.
C20_StepOrder ==
    /\ [][pc' # pc
             => \/ StepOf(pc') \in {StepOf(pc), StepOf(pc) + 1}
                \/ pc' = "raised"
                \/ pc = "decide" /\ pc' = "returned"]_vars
    /\ [][classifier_calls' # classifier_calls
             => /\ classifier_calls = 0 /\ classifier_calls' = 1
                /\ RunReturned /\ proc = "exited"
                /\ Len(logs) = 2
                /\ ParseSucceeds /\ plan = ParsedPlan
                /\ ~tempdir
                /\ error = "none"
                /\ ~(timeout_occoured /\ returncode[1] # 0)]_vars
    /\ [](/\ classifier_calls \in {0, 1}
          /\ (pc = "returned" /\ timeout_occoured /\ returncode[1] # 0)
                => (classifier_calls = 0 /\ outcome[1].status = "TIMEOUT")
          /\ (pc = "raised" /\ error # "ClassificationError")
                => classifier_calls = 0)

\* solve returned a parsed plan with the status the classifier chose, once
C20_Witness ==
    /\ pc = "returned" /\ classifier_calls = 1
    /\ plan_seen # None /\ plan # None /\ plan[1] # <<>>
    /\ ~tempdir /\ Len(logs) = 2

====
